---------------------------- MODULE Spec2Model ----------------------------
(***************************************************************************)
(* Model of the client of the Active Clinical Guardian: the useWebSocket   *)
(* hook (transport channel and reconnection manager, second definition in  *)
(* src/unnamed/part_002) and the Home component (session mirror, src/      *)
(* unnamed/part_003) that drives it.                                       *)
(*                                                                         *)
(* Two specifications are defined over the same variables:                 *)
(*   Spec      the hook alone, its connect()/disconnect()/unmount called   *)
(*             by an arbitrary client, with the browser delivering open    *)
(*             and close events and firing timers in any order;            *)
(*   SpecPage  the Home component composed with the hook.                  *)
(*                                                                         *)
(* Timers are untimed: a pending timer may fire at any later moment.       *)
(***************************************************************************)
EXTENDS Integers, Sequences, FiniteSets, TLC

\* ------------------------------------------------------------------ bounds
MaxSockets == 3        \* WebSocket objects created in one behaviour
MaxSessions == 2       \* sessions the REST collaborator creates
MaxPending == 1        \* start (or end) REST calls in flight at once
MaxFrames == 2         \* frames on the wire (either way) in one behaviour
MaxWork == 5           \* sessions, channels, frames and seconds of one behaviour, jointly
MaxElapsed == 2        \* ticks of the one-second duration timer
MaxFragments == 3      \* inbound audio fragments in one behaviour
MaxStarts == 2         \* startRecording() calls in one behaviour
MaxChunks == 2         \* captured chunks in one behaviour
MaxBuffer == 6         \* samples in a capture buffer that is resampled
MaxTime == 1500        \* the clock stops here (ms)
ClockStep == 100       \* granularity of the clock (ms)

\* ------------------------------------------------------- program constants
RECONNECT_BASE_DELAY == 1000
DefaultMaxReconnectAttempts == 5
FLUSH_DELAY == 500     \* the quiet interval of playAudioChunk (ms)

\* Values of the hook option maxReconnectAttempts that are explored: small
\* caps, which the bounded run reaches, and the default.
AttemptOptions == {1, 2, DefaultMaxReconnectAttempts}

\* ------------------------------------------------------------ value spaces
NoSocket == 0          \* wsRef.current === null
NoTimer  == 0          \* reconnectTimerRef.current === null
NoPipeline == 0        \* streamRef.current === null, and the other refs
NULL     == "null"     \* a React state holding null

ReadyStates == {"CONNECTING", "OPEN", "CLOSING", "CLOSED"}

\* The six session states of the protocol, and the values a state_change
\* may carry (one unrecognized value stands for all of them).
SessionStates == {"IDLE", "LISTENING", "PAUSED", "PROCESSING", "INTERRUPTING", "COMPLETED"}
NewStateInputs == SessionStates \cup {"BOGUS"}
SessionIds == <<"S1", "S2", "S3", "S4">>   \* ids the backend issues, in order
PatientIds == {"P001"}
SafetyLevels == {"SAFE", "CRITICAL"}       \* the lowest and the highest level

\* Inbound event messages, as decoded JSON.  Every record has every field;
\* a field the message type does not define is NULL (absent).
Message(type) ==
  [type |-> type, new_state |-> NULL, text |-> NULL, safety_level |-> NULL,
   warning |-> NULL, recommendation |-> NULL, intent |-> <<>>, soap_note |-> NULL]
NoMessage == Message(NULL)
Intent(meds) == [medications |-> meds, procedures |-> <<>>, diagnoses |-> <<>>]

Messages ==
       {[Message("state_change") EXCEPT !.new_state = n] : n \in NewStateInputs}
  \cup {[Message(t) EXCEPT !.text = "hello"] : t \in {"transcript", "transcript_added"}}
  \cup {[Message("safety_alert") EXCEPT !.safety_level = l, !.warning = w, !.recommendation = w]
          : l \in SafetyLevels, w \in {NULL, "warn"}}
  \cup {[Message("clinical_intent") EXCEPT !.intent = <<Intent(meds)>>]
          : meds \in {<<>>, <<[name |-> "sumatriptan", dosage |-> "50mg"]>>}}
  \cup {[Message("consult_ended") EXCEPT !.soap_note = "soap"]}
  \cup {[Message("interruption_start") EXCEPT !.text = x] : x \in {NULL, "Serotonin syndrome risk"}}
  \cup {Message("interruption_end")}
  \cup {Message("unknown_type")}

\* JavaScript  a || b  on strings, and `${x}` of a template literal
Falsy(x) == x \in {NULL, ""}
OrElse(x, d) == IF Falsy(x) THEN d ELSE x
Template(prefix, x) == <<prefix, IF x = NULL THEN "undefined" ELSE x>>

RECURSIVE Pow2(_)
Pow2(n) == IF n = 0 THEN 1 ELSE 2 * Pow2(n - 1)

VARIABLES
  \* ---- useWebSocket
  sockets,               \* every WebSocket created so far, by creation order
  wsRef,                 \* wsRef.current: index into sockets, or NoSocket
  reconnectAttemptsRef,  \* reconnectAttemptsRef.current
  reconnectTimerRef,     \* reconnectTimerRef.current: timer id, or NoTimer
  intentionalCloseRef,   \* intentionalCloseRef.current
  isConnected,           \* useState(false)
  timers,                \* pending setTimeout callbacks of ws.onclose
  maxReconnectAttempts,  \* the hook option
  mounted,               \* the hook's component is mounted
  lastMessage,           \* useState<WebSocketMessage | null>(null)
  sent,                  \* frames transmitted by send(), in order
  issued,                \* history: per frame of sent, the command that sent it
  inbound,               \* history: per inbound text frame, whether it decoded
  audioIn,               \* inbound binary frames: arrived, converting, handed on
  \* ---- Home
  sessionId, sessionState, isPaused, elapsedSeconds,
  selectedPatientId, patientData,
  transcriptEntries, safetyAlerts, currentSafetyLevel,
  isInterrupting, interruptionMessage,
  clinicalIntent, sessionSummary,
  \* ---- asynchronous operations of Home in flight
  selectCalls,           \* api.getPatient calls awaiting their response
  startCalls,            \* api.startConsult calls awaiting their response
  connectTimeouts,       \* setTimeout(() => ws.connect(), 100) pending
  endCalls,              \* api.endConsult calls awaiting their response
  dangerCalls,           \* api.simulateDanger calls awaiting their response
  nSessions,             \* sessions created by the backend so far
  nMessages,             \* inbound text frames delivered so far
  nRejected,             \* api.startConsult calls rejected so far
  \* ---- history (never read by the modelled code)
  lastOp,                \* the last operation or event of the hook
  streak,                \* unintentional closes since the last open/disconnect
  fromOpen,              \* the current streak started at a successful open
  closedByClient,        \* disconnect()/unmount ran and connect() was not called since
  completions,           \* per session, the paths that performed its completion
  termObs,               \* per completion path, the state it last left
  pauseCycle,            \* the pause/resume cycle of the session and the
                         \* elapsedSeconds at which it was paused
  \* ---- useAudioPlayer
  chunksRef,             \* chunksRef.current: the buffered fragments
  flushTimerRef,         \* flushTimerRef.current: timer id, or NoTimer
  flushTimers,           \* pending setTimeout callbacks of playAudioChunk
  isPlaying,             \* useState(false)
  audioContextRef,       \* audioContextRef.current: state of the context
  playbacks,             \* playAccumulated() calls in flight
  \* ---- the clock, and history of the player
  now,                   \* milliseconds since the page was loaded
  arrivedAt,             \* per fragment, the time playAudioChunk took it
  flushes,               \* the buffers taken by playAccumulated, in order
  stopped,               \* stopPlayback() was called
  dropped,               \* the fragments that stopPlayback() discarded
  outcomes,              \* how each finished playAccumulated() call ended
  \* ---- useAudioRecorder
  isRecording,           \* useState(false)
  error,                 \* useState<string | null>(null)
  streamRef,             \* streamRef.current: a pipeline, or NoPipeline
  audioCtxRef,           \* audioCtxRef.current
  processorRef,          \* processorRef.current
  sourceRef,             \* sourceRef.current
  pipelines,             \* per startRecording() call, the resources it holds
  emitted,               \* the pipelines whose chunks reached onAudioChunk, in order
  resample,              \* a call of downsampleFloat32: its arguments and result
  recOp                  \* history: the last operation of the recorder

hookVars == <<sockets, wsRef, reconnectAttemptsRef, reconnectTimerRef,
              intentionalCloseRef, isConnected, timers, maxReconnectAttempts,
              mounted>>
wireVars == <<lastMessage, sent, issued, inbound, audioIn>>
homeVars == <<sessionId, sessionState, isPaused, elapsedSeconds,
              selectedPatientId, patientData,
              transcriptEntries, safetyAlerts, currentSafetyLevel,
              isInterrupting, interruptionMessage, clinicalIntent,
              sessionSummary>>
asyncVars == <<selectCalls, startCalls, connectTimeouts, endCalls, dangerCalls,
               nSessions, nMessages, nRejected>>
histVars == <<lastOp, streak, fromOpen, closedByClient>>
homeHist == <<completions, termObs, pauseCycle>>
recorderVars == <<isRecording, error, streamRef, audioCtxRef, processorRef,
                  sourceRef, pipelines, emitted, recOp, resample>>
playerHist == <<dropped, outcomes>>
playerVars == <<chunksRef, flushTimerRef, flushTimers, isPlaying, audioContextRef,
                playbacks, now, arrivedAt, flushes, stopped, playerHist>>
\* what the events of the hook alone leave unchanged
nonHookVars == <<wireVars, homeVars, asyncVars, homeHist, playerVars,
                 recorderVars>>
pageVars == <<hookVars, histVars, wireVars, homeVars, asyncVars, homeHist>>
vars == <<pageVars, playerVars, recorderVars>>

\* What a connect callback captured from the render that created it: the
\* hook's sessionId option, and the sessionId and elapsedSeconds that the
\* onMessage handler of that render closes over.  session is history only:
\* the session whose start scheduled the connect.
Closure(sid, elapsed, session) ==
  [sessionId |-> IF sid = NULL THEN "" ELSE sid,
   hSessionId |-> sid, hElapsed |-> elapsed, session |-> session]
CurrentClosure == Closure(sessionId, elapsedSeconds, NULL)

\* The refs of the hook as one value, so that the callbacks compose.
HookState ==
  [sockets |-> sockets, wsRef |-> wsRef, attempts |-> reconnectAttemptsRef,
   timerRef |-> reconnectTimerRef, intentional |-> intentionalCloseRef]

SetHook(h) ==
  /\ sockets' = h.sockets
  /\ wsRef' = h.wsRef
  /\ reconnectAttemptsRef' = h.attempts
  /\ reconnectTimerRef' = h.timerRef
  /\ intentionalCloseRef' = h.intentional

\* WebSocket.close(): CONNECTING or OPEN starts the closing handshake; the
\* close event is delivered later.  No effect on CLOSING or CLOSED.
SocketClose(s) ==
  IF s.readyState \in {"CONNECTING", "OPEN"}
  THEN [s EXCEPT !.readyState = "CLOSING"] ELSE s

\* api.createWebSocket(sessionId) with the four handlers assigned.
NewSocket(c) == [readyState |-> "CONNECTING", onclose |-> TRUE, closure |-> c]

\* A variant that replaces the current socket without closing it
CleanupExisting_NoClose(ss, ref) == ss

\* connect(), "Clean up any existing connection": detach onclose, close().
CleanupExisting(ss, ref) ==
  IF ref = NoSocket THEN ss
  ELSE [ss EXCEPT ![ref] = SocketClose([@ EXCEPT !.onclose = FALSE])]

\* connect(), as the callback of the render whose closure is c
connect(h, c) ==
  IF h.wsRef # NoSocket /\ h.sockets[h.wsRef].readyState = "OPEN"
  THEN h
  ELSE [h EXCEPT !.sockets = Append(CleanupExisting(h.sockets, h.wsRef), NewSocket(c)),
                 !.wsRef = Len(h.sockets) + 1,
                 !.intentional = FALSE]

\* disconnect(); the cleared timer is also removed from the pending ones.
disconnect(h) ==
  [h EXCEPT !.intentional = TRUE,
            !.timerRef = NoTimer,
            !.attempts = 0,
            !.sockets = IF h.wsRef = NoSocket THEN @
                        ELSE [@ EXCEPT ![h.wsRef] = SocketClose(@)],
            !.wsRef = NoSocket]

ClearTimeout(ts, id) == {t \in ts : t.id # id}

CurrentOpen == wsRef # NoSocket /\ sockets[wsRef].readyState = "OPEN"

\* connect() creates a socket unless the current one is OPEN.
WouldCreate(h) == ~(h.wsRef # NoSocket /\ h.sockets[h.wsRef].readyState = "OPEN")
\* Sessions asked for, channels created, frames carried, seconds counted
\* and demo requests in flight
Work == nSessions + nRejected + Len(startCalls) + Len(sockets) + nMessages
        + Len(sent) + elapsedSeconds + dangerCalls
CanConnect(h) ==
  WouldCreate(h) => (Len(h.sockets) < MaxSockets /\ Work < MaxWork)


--------------------------------------------------------------------------
\* Home: the React state as one value, and its message handler

HomeState ==
  [sessionId |-> sessionId, sessionState |-> sessionState, isPaused |-> isPaused,
   elapsedSeconds |-> elapsedSeconds, selectedPatientId |-> selectedPatientId,
   patientData |-> patientData, transcriptEntries |-> transcriptEntries,
   safetyAlerts |-> safetyAlerts, currentSafetyLevel |-> currentSafetyLevel,
   isInterrupting |-> isInterrupting, interruptionMessage |-> interruptionMessage,
   clinicalIntent |-> clinicalIntent, sessionSummary |-> sessionSummary]

SetHome(st) ==
  /\ sessionId' = st.sessionId
  /\ sessionState' = st.sessionState
  /\ isPaused' = st.isPaused
  /\ elapsedSeconds' = st.elapsedSeconds
  /\ selectedPatientId' = st.selectedPatientId
  /\ patientData' = st.patientData
  /\ transcriptEntries' = st.transcriptEntries
  /\ safetyAlerts' = st.safetyAlerts
  /\ currentSafetyLevel' = st.currentSafetyLevel
  /\ isInterrupting' = st.isInterrupting
  /\ interruptionMessage' = st.interruptionMessage
  /\ clinicalIntent' = st.clinicalIntent
  /\ sessionSummary' = st.sessionSummary

\* medications.map(m => `${m.name}${m.dosage ? ` ${m.dosage}` : ""}`)
MedNames(meds) == [k \in 1..Len(meds) |-> <<meds[k].name, meds[k].dosage>>]

\* A variant that restarts the duration when the session resumes
onStateChange_RestartsClock(st, m) ==
  [st EXCEPT !.sessionState = m.new_state,
             !.isPaused = IF m.new_state = "PAUSED" THEN TRUE
                          ELSE IF m.new_state = "LISTENING" THEN FALSE
                          ELSE @,
             !.elapsedSeconds = IF m.new_state = "LISTENING" THEN 0 ELSE @,
             !.isInterrupting = IF m.new_state = "INTERRUPTING" THEN TRUE ELSE @]

\* A variant that raises the overlay only when interrupting a LISTENING session
onStateChange_OverlayFromListening(st, m) ==
  [st EXCEPT !.sessionState = m.new_state,
             !.isPaused = IF m.new_state = "PAUSED" THEN TRUE
                          ELSE IF m.new_state = "LISTENING" THEN FALSE
                          ELSE @,
             !.isInterrupting = IF m.new_state = "INTERRUPTING"
                                   /\ st.sessionState = "LISTENING"
                                THEN TRUE ELSE @]

\* handleWebSocketMessage, case "state_change"
onStateChange(st, m) ==
  [st EXCEPT !.sessionState = m.new_state,
             !.isPaused = IF m.new_state = "PAUSED" THEN TRUE
                          ELSE IF m.new_state = "LISTENING" THEN FALSE
                          ELSE @,
             !.isInterrupting = IF m.new_state = "INTERRUPTING" THEN TRUE ELSE @]

\* A variant that shows the newest entry first
onTranscript_NewestFirst(st, m) ==
  [st EXCEPT !.transcriptEntries =
                <<[text |-> <<m.text>>, speaker |-> "doctor"]>> \o @]

\* handleWebSocketMessage, cases "transcript" and "transcript_added"
onTranscript(st, m) ==
  [st EXCEPT !.transcriptEntries =
                Append(@, [text |-> <<m.text>>, speaker |-> "doctor"])]

\* A variant whose current severity never drops below CRITICAL once seen
onSafetyAlert_KeepsMostSevere(st, m) ==
  [st EXCEPT !.safetyAlerts =
                <<[level |-> m.safety_level,
                   message |-> OrElse(m.warning, "Safety check completed"),
                   recommendation |-> OrElse(m.recommendation, NULL)]>> \o @,
             !.currentSafetyLevel = IF @ = "CRITICAL" THEN @ ELSE m.safety_level]

\* handleWebSocketMessage, case "safety_alert"
onSafetyAlert(st, m) ==
  [st EXCEPT !.safetyAlerts =
                <<[level |-> m.safety_level,
                   message |-> OrElse(m.warning, "Safety check completed"),
                   recommendation |-> OrElse(m.recommendation, NULL)]>> \o @,
             !.currentSafetyLevel = m.safety_level]

\* handleWebSocketMessage, case "clinical_intent"
onClinicalIntent(st, m) ==
  [st EXCEPT !.clinicalIntent = m.intent,
             !.transcriptEntries =
                IF Len(m.intent[1].medications) > 0
                THEN Append(@, [text |-> <<"[Detected] Medications: ",
                                           MedNames(m.intent[1].medications)>>,
                                speaker |-> "system"])
                ELSE @]

\* handleWebSocketMessage, case "consult_ended", as the callback whose render
\* captured c.hSessionId and c.hElapsed
onConsultEnded(st, m, c) ==
  [st EXCEPT !.sessionSummary =
                <<[session_id |-> OrElse(c.hSessionId, ""),
                   soap_note |-> m.soap_note,
                   billing |-> "pending",
                   duration_minutes |-> c.hElapsed \div 60]>>,
             !.sessionState = "COMPLETED"]

\* A variant that infers the session state from the interruption event
onInterruptionStart_InfersState(st, m) ==
  [st EXCEPT !.sessionState = "INTERRUPTING",
             !.isInterrupting = TRUE,
             !.interruptionMessage = OrElse(m.text, "Clinical alert detected!"),
             !.transcriptEntries =
                Append(@, [text |-> Template("[ALERT] ", m.text),
                           speaker |-> "system"])]

\* handleWebSocketMessage, case "interruption_start"
onInterruptionStart(st, m) ==
  [st EXCEPT !.isInterrupting = TRUE,
             !.interruptionMessage = OrElse(m.text, "Clinical alert detected!"),
             !.transcriptEntries =
                Append(@, [text |-> Template("[ALERT] ", m.text),
                           speaker |-> "system"])]

\* A variant that also puts the mirrored state back to LISTENING
onInterruptionEnd_ResumesListening(st) ==
  [st EXCEPT !.isInterrupting = FALSE, !.sessionState = "LISTENING"]

\* handleWebSocketMessage, case "interruption_end"
onInterruptionEnd(st) == [st EXCEPT !.isInterrupting = FALSE]

\* A variant whose switch has a default case that shows the message
handleWebSocketMessage_ShowsUnknown(st, m, c) ==
  CASE m.type = "state_change" -> onStateChange(st, m)
    [] m.type = "safety_alert" -> onSafetyAlert(st, m)
    [] m.type = "clinical_intent" -> onClinicalIntent(st, m)
    [] m.type = "consult_ended" -> onConsultEnded(st, m, c)
    [] m.type = "interruption_start" -> onInterruptionStart(st, m)
    [] m.type = "interruption_end" -> onInterruptionEnd(st)
    [] OTHER -> onTranscript(st, m)

\* handleWebSocketMessage(message): the switch on message.type.  Entry ids
\* (Date.now()) and timestamps are not represented.
handleWebSocketMessage(st, m, c) ==
  CASE m.type = "state_change" -> onStateChange(st, m)
    [] m.type \in {"transcript", "transcript_added"} -> onTranscript(st, m)
    [] m.type = "safety_alert" -> onSafetyAlert(st, m)
    [] m.type = "clinical_intent" -> onClinicalIntent(st, m)
    [] m.type = "consult_ended" -> onConsultEnded(st, m, c)
    [] m.type = "interruption_start" -> onInterruptionStart(st, m)
    [] m.type = "interruption_end" -> onInterruptionEnd(st)
    [] OTHER -> st

\* sendAudio(audioData): one raw binary frame on the current socket when it
\* is OPEN
AudioFrame == [type |-> "binary", text |-> NULL, speaker |-> NULL]
sendAudio(out, h) ==
  IF h.wsRef # NoSocket /\ h.sockets[h.wsRef].readyState = "OPEN"
  THEN Append(out, [socket |-> h.wsRef, frame |-> AudioFrame])
  ELSE out

\* A variant that sends whatever the state of the channel
sendMessage_Unguarded(out, h, frame) ==
  Append(out, [socket |-> h.wsRef, frame |-> frame])

\* sendMessage(message): one text frame on the current socket when it is OPEN
sendMessage(out, h, frame) ==
  IF h.wsRef # NoSocket /\ h.sockets[h.wsRef].readyState = "OPEN"
  THEN Append(out, [socket |-> h.wsRef, frame |-> frame])
  ELSE out

\* What is observable of a terminal state: mirrored state, presence of a
\* session id, channel open, summary shown.
Observed(st, h) ==
  <<st.sessionState, st.sessionId # NULL,
    h.wsRef # NoSocket /\ h.sockets[h.wsRef].readyState = "OPEN",
    st.sessionSummary # <<>>>>

\* History of the pause/resume cycle: the phase, and the elapsedSeconds at
\* which a state_change to PAUSED was processed.
NoCycle == [phase |-> "none", at |-> 0]
CycleAfter(pc, st, m) ==
  IF m.type # "state_change" THEN pc
  ELSE IF m.new_state = "PAUSED" /\ pc.phase # "paused"
       THEN [phase |-> "paused", at |-> st.elapsedSeconds]
  ELSE IF m.new_state = "LISTENING" /\ pc.phase = "paused"
       THEN [phase |-> "resumed", at |-> pc.at]
  ELSE pc

Completed(f, k, path) == [f EXCEPT ![k] = @ \cup {path}]
SessionIndex(sid) == CHOOSE k \in 1..Len(SessionIds) : SessionIds[k] = sid
RemoveAt(q, k) == [j \in 1..(Len(q) - 1) |-> IF j < k THEN q[j] ELSE q[j + 1]]

--------------------------------------------------------------------------
\* Actions of the hook

\* A client calls connect().
Connect ==
  /\ mounted
  /\ CanConnect(HookState)
  /\ SetHook(connect(HookState, CurrentClosure))
  /\ lastOp' = "connect"
  /\ closedByClient' = FALSE
  /\ UNCHANGED <<isConnected, timers, maxReconnectAttempts, mounted, streak, fromOpen>>
  /\ UNCHANGED nonHookVars

\* A client calls disconnect().
Disconnect ==
  /\ mounted
  /\ SetHook(disconnect(HookState))
  /\ timers' = ClearTimeout(timers, reconnectTimerRef)
  /\ lastOp' = "disconnect"
  /\ streak' = 0
  /\ fromOpen' = FALSE
  /\ closedByClient' = TRUE
  /\ UNCHANGED <<isConnected, maxReconnectAttempts, mounted>>
  /\ UNCHANGED nonHookVars

\* The effect cleanup at unmount: flag, clearTimeout, disconnect().
Unmount ==
  /\ mounted
  /\ mounted' = FALSE
  /\ SetHook(disconnect([HookState EXCEPT !.intentional = TRUE]))
  /\ timers' = ClearTimeout(timers, reconnectTimerRef)
  /\ lastOp' = "unmount"
  /\ streak' = 0
  /\ fromOpen' = FALSE
  /\ closedByClient' = TRUE
  /\ UNCHANGED <<isConnected, maxReconnectAttempts>>
  /\ UNCHANGED nonHookVars

\* The browser delivers the open event of socket i: ws.onopen.
SocketOpen(i) ==
  /\ sockets[i].readyState = "CONNECTING"
  /\ sockets' = [sockets EXCEPT ![i].readyState = "OPEN"]
  /\ isConnected' = TRUE
  /\ reconnectAttemptsRef' = 0
  /\ lastOp' = "open"
  /\ streak' = 0
  /\ fromOpen' = TRUE
  /\ UNCHANGED <<wsRef, reconnectTimerRef, intentionalCloseRef, timers,
                 maxReconnectAttempts, mounted, closedByClient>>
  /\ UNCHANGED nonHookVars

\* The timer that ws.onclose of socket i arms.
RetryTimer(i) ==
  [id |-> i,
   closure |-> sockets[i].closure,
   delay |-> RECONNECT_BASE_DELAY * Pow2(reconnectAttemptsRef),
   n |-> streak + 1,
   afterOpen |-> fromOpen,
   stale |-> (i # wsRef)]

\* The browser delivers the close event of socket i (connection lost or
\* refused, or closing handshake finished): ws.onclose when still attached.
SocketCloseEvent(i) ==
  /\ sockets[i].readyState # "CLOSED"
  /\ sockets' = [sockets EXCEPT ![i].readyState = "CLOSED"]
  /\ lastOp' = "close"
  /\ IF sockets[i].onclose
     THEN /\ isConnected' = FALSE
          /\ IF ~intentionalCloseRef
             THEN /\ streak' = streak + 1
                  /\ IF reconnectAttemptsRef < maxReconnectAttempts
                     THEN /\ timers' = timers \cup {RetryTimer(i)}
                          /\ reconnectTimerRef' = i
                     ELSE UNCHANGED <<timers, reconnectTimerRef>>
             ELSE UNCHANGED <<streak, timers, reconnectTimerRef>>
     ELSE UNCHANGED <<isConnected, streak, timers, reconnectTimerRef>>
  /\ UNCHANGED <<wsRef, reconnectAttemptsRef, intentionalCloseRef,
                 maxReconnectAttempts, mounted, fromOpen, closedByClient>>
  /\ UNCHANGED nonHookVars

\* A pending retry timer fires: reconnectAttemptsRef.current += 1; connect().
TimerFire(t) ==
  /\ t \in timers
  /\ LET h == [HookState EXCEPT !.attempts = @ + 1] IN
       /\ CanConnect(h)
       /\ SetHook(connect(h, t.closure))
  /\ timers' = timers \ {t}
  /\ lastOp' = "timer"
  /\ UNCHANGED <<isConnected, maxReconnectAttempts, mounted, streak, fromOpen,
                 closedByClient>>
  /\ UNCHANGED nonHookVars

--------------------------------------------------------------------------
\* useAudioRecorder.  A pipeline is what one startRecording() call acquires:
\* the microphone stream, the AudioContext, the source node and the
\* processor node.

\* connected is ws.isConnected of the render whose startRecording was
\* called: what the onAudioChunk that the processor will call closes over.
NewPipeline ==
  [stream |-> "pending", ctx |-> "none", source |-> "none", processor |-> "none",
   connected |-> isConnected]

RecorderState ==
  [isRecording |-> isRecording, error |-> error, streamRef |-> streamRef,
   audioCtxRef |-> audioCtxRef, processorRef |-> processorRef,
   sourceRef |-> sourceRef, pipelines |-> pipelines]

SetRecorder(r) ==
  /\ isRecording' = r.isRecording
  /\ error' = r.error
  /\ streamRef' = r.streamRef
  /\ audioCtxRef' = r.audioCtxRef
  /\ processorRef' = r.processorRef
  /\ sourceRef' = r.sourceRef
  /\ pipelines' = r.pipelines

RecorderInit ==
  /\ isRecording = FALSE
  /\ error = NULL
  /\ streamRef = NoPipeline
  /\ audioCtxRef = NoPipeline
  /\ processorRef = NoPipeline
  /\ sourceRef = NoPipeline
  /\ pipelines = <<>>
  /\ emitted = <<>>
  /\ recOp = [op |-> "none", failAt |-> "none", held |-> {}]

RecOp(op, failAt, held) == [op |-> op, failAt |-> failAt, held |-> held]
\* The pipelines the refs designate
HeldPipelines == {streamRef, audioCtxRef, processorRef, sourceRef} \ {NoPipeline}
RecorderIdle == HeldPipelines = {} /\ ~isRecording

\* startRecording: the catch clause
StartFailed(r) == [r EXCEPT !.error = "Failed to access microphone"]

\* startRecording after getUserMedia resolved, for the call that owns
\* pipeline k; failAt is the setup step that throws, or "none"
SetupFrom(r, k, failAt) ==
  LET r1 == [r EXCEPT !.streamRef = k, !.pipelines[k].stream = "live"]
      r2 == [r1 EXCEPT !.audioCtxRef = k, !.pipelines[k].ctx = "open"]
      r3 == [r2 EXCEPT !.sourceRef = k, !.pipelines[k].source = "created"]
      r4 == [r3 EXCEPT !.processorRef = k,
                       !.pipelines[k].source = "connected",
                       !.pipelines[k].processor = "connected",
                       !.isRecording = TRUE]
  IN  CASE failAt = "context" -> StartFailed(r1)
        [] failAt = "source" -> StartFailed(r2)
        [] failAt = "processor" -> StartFailed(r3)
        [] OTHER -> r4

\* The teardown steps of stopRecording, each guarded by its ref
StopProcessor(r) ==
  IF r.processorRef = NoPipeline THEN r
  ELSE [r EXCEPT !.pipelines[r.processorRef].processor = "disconnected",
                 !.processorRef = NoPipeline]
StopSource(r) ==
  IF r.sourceRef = NoPipeline THEN r
  ELSE [r EXCEPT !.pipelines[r.sourceRef].source = "disconnected",
                 !.sourceRef = NoPipeline]
CloseContext(r) ==
  IF r.audioCtxRef = NoPipeline THEN r
  ELSE [r EXCEPT !.pipelines[r.audioCtxRef].ctx = "closed",
                 !.audioCtxRef = NoPipeline]
StopTracks(r) ==
  IF r.streamRef = NoPipeline THEN r
  ELSE [r EXCEPT !.pipelines[r.streamRef].stream = "stopped",
                 !.streamRef = NoPipeline]

\* The teardown steps that stopRecording would execute, which may throw
StopFailures(r) ==
  {"none"} \cup (IF r.processorRef # NoPipeline THEN {"processor"} ELSE {})
           \cup (IF r.sourceRef # NoPipeline THEN {"source"} ELSE {})
           \cup (IF r.audioCtxRef # NoPipeline THEN {"context"} ELSE {})
           \cup (IF r.streamRef # NoPipeline THEN {"tracks"} ELSE {})

\* stopRecording(): the steps run in order, and a step that throws (failAt)
\* ends the call there
stopRecording(r, failAt) ==
  IF failAt = "processor" THEN r
  ELSE LET a == StopProcessor(r) IN
  IF failAt = "source" THEN a
  ELSE LET b == StopSource(a) IN
  IF failAt = "context" THEN b
  ELSE LET c == CloseContext(b) IN
  IF failAt = "tracks" THEN c
  ELSE [StopTracks(c) EXCEPT !.isRecording = FALSE]

--------------------------------------------------------------------------
\* useAudioPlayer as first rendered; the clock starts at 0
PlayerInit ==
  /\ chunksRef = <<>>
  /\ flushTimerRef = NoTimer
  /\ flushTimers = {}
  /\ isPlaying = FALSE
  /\ audioContextRef = "none"
  /\ playbacks = {}
  /\ now = 0
  /\ arrivedAt = <<>>
  /\ flushes = <<>>
  /\ stopped = FALSE
  /\ dropped = {}
  /\ outcomes = {}

--------------------------------------------------------------------------
\* Home as first rendered
HomeInit ==
  /\ lastMessage = NoMessage
  /\ sent = <<>>
  /\ issued = <<>>
  /\ dangerCalls = 0
  /\ nRejected = 0
  /\ inbound = <<>>
  /\ audioIn = [arrived |-> 0, pending |-> {}, delivered |-> <<>>]
  /\ sessionId = NULL
  /\ sessionState = "IDLE"
  /\ isPaused = FALSE
  /\ elapsedSeconds = 0
  /\ selectedPatientId = NULL
  /\ patientData = NULL
  /\ transcriptEntries = <<>>
  /\ safetyAlerts = <<>>
  /\ currentSafetyLevel = "SAFE"
  /\ isInterrupting = FALSE
  /\ interruptionMessage = ""
  /\ clinicalIntent = <<>>
  /\ sessionSummary = <<>>
  /\ selectCalls = {}
  /\ startCalls = <<>>
  /\ connectTimeouts = <<>>
  /\ endCalls = <<>>
  /\ nSessions = 0
  /\ nMessages = 0
  /\ completions = [i \in 1..Len(SessionIds) |-> {}]
  /\ termObs = [rest |-> <<>>, event |-> <<>>]
  /\ pauseCycle = NoCycle

\* No buffer has been captured yet
NoResample == [buffer |-> <<>>, srcRate |-> 0, dstRate |-> 0, done |-> FALSE,
               result |-> <<>>, reads |-> {}]

\* Every component as first rendered
InitComponents ==
  /\ sockets = <<>>
  /\ wsRef = NoSocket
  /\ reconnectAttemptsRef = 0
  /\ reconnectTimerRef = NoTimer
  /\ intentionalCloseRef = FALSE
  /\ isConnected = FALSE
  /\ timers = {}
  /\ maxReconnectAttempts \in AttemptOptions
  /\ mounted = TRUE
  /\ lastOp = "init"
  /\ streak = 0
  /\ fromOpen = FALSE
  /\ closedByClient = FALSE
  /\ HomeInit
  /\ PlayerInit
  /\ RecorderInit

Init ==
  /\ InitComponents
  /\ resample = NoResample

Next ==
  \/ Connect
  \/ Disconnect
  \/ Unmount
  \/ \E i \in 1..Len(sockets) : SocketOpen(i)
  \/ \E i \in 1..Len(sockets) : SocketCloseEvent(i)
  \/ \E t \in timers : TimerFire(t)

Spec == Init /\ [][Next]_vars

TypeOK ==
  /\ wsRef \in 0..Len(sockets)
  /\ \A i \in 1..Len(sockets) : sockets[i].readyState \in ReadyStates
  /\ reconnectAttemptsRef \in Nat
  /\ intentionalCloseRef \in BOOLEAN
  /\ isConnected \in BOOLEAN

--------------------------------------------------------------------------
\* Actions of Home

hookHist == <<streak, fromOpen, closedByClient>>
hookRest == <<isConnected, timers, maxReconnectAttempts, mounted>>

\* A transmitting command is taken only while the frame log has room.
HasRoom == nMessages + Len(sent) < MaxFrames /\ Work < MaxWork
CanSend == CurrentOpen => HasRoom

\* handleSelectPatient: the click on a patient of the start screen
SelectPatientClick(p) ==
  /\ UNCHANGED <<dangerCalls, nRejected>>
  /\ sessionId = NULL
  /\ selectCalls' = selectCalls \cup {p}
  /\ UNCHANGED <<lastOp, playerVars, recorderVars>>
  /\ UNCHANGED <<hookVars, hookHist, wireVars, homeVars, startCalls,
                 connectTimeouts, endCalls, nSessions, nMessages, homeHist>>

\* handleSelectPatient: api.getPatient resolved
SelectPatientOk(p) ==
  /\ UNCHANGED <<dangerCalls, nRejected>>
  /\ p \in selectCalls
  /\ selectCalls' = selectCalls \ {p}
  /\ SetHome([HomeState EXCEPT !.patientData = p, !.selectedPatientId = p])
  /\ UNCHANGED <<lastOp, playerVars, recorderVars>>
  /\ UNCHANGED <<hookVars, hookHist, wireVars, startCalls, connectTimeouts,
                 endCalls, nSessions, nMessages, homeHist>>

\* handleSelectPatient: api.getPatient rejected (caught and logged)
SelectPatientFail(p) ==
  /\ UNCHANGED <<dangerCalls, nRejected>>
  /\ p \in selectCalls
  /\ selectCalls' = selectCalls \ {p}
  /\ UNCHANGED <<lastOp, playerVars, recorderVars>>
  /\ UNCHANGED <<hookVars, hookHist, wireVars, homeVars, startCalls,
                 connectTimeouts, endCalls, nSessions, nMessages, homeHist>>

\* handleStartConsult up to its await: the Start button of the start screen
StartConsultClick ==
  /\ UNCHANGED <<dangerCalls, nRejected>>
  /\ sessionId = NULL
  /\ selectedPatientId # NULL
  /\ Len(startCalls) < MaxPending
  /\ nSessions + Len(startCalls) + nRejected < MaxSessions
  /\ Work < MaxWork
  /\ startCalls' = Append(startCalls, Closure(sessionId, elapsedSeconds, NULL))
  /\ UNCHANGED <<lastOp, playerVars, recorderVars>>
  /\ UNCHANGED <<hookVars, hookHist, wireVars, homeVars, selectCalls,
                 connectTimeouts, endCalls, nSessions, nMessages, homeHist>>

\* The state that handleStartConsult sets once api.startConsult resolved
StartedState(st, sid) ==
  [st EXCEPT !.sessionId = sid,
             !.sessionState = "LISTENING",
             !.elapsedSeconds = 0,
             !.transcriptEntries = <<>>,
             !.safetyAlerts = <<>>,
             !.currentSafetyLevel = "SAFE",
             !.clinicalIntent = <<>>]

\* handleStartConsult after its await: the k-th pending call resolved
StartConsultOk(k) ==
  /\ UNCHANGED <<dangerCalls, nRejected>>
  /\ k \in 1..Len(startCalls)
  /\ LET sid == SessionIds[nSessions + 1] IN
       /\ SetHome(StartedState(HomeState, sid))
       /\ connectTimeouts' = Append(connectTimeouts, [startCalls[k] EXCEPT !.session = sid])
  /\ nSessions' = nSessions + 1
  /\ startCalls' = RemoveAt(startCalls, k)
  /\ pauseCycle' = NoCycle
  /\ UNCHANGED <<lastOp, playerVars, recorderVars>>
  /\ UNCHANGED <<hookVars, hookHist, wireVars, selectCalls, endCalls, nMessages,
                 completions, termObs>>

\* A variant whose catch clause connects the channel all the same
StartConsultFail_StillConnects(k) ==
  /\ UNCHANGED dangerCalls
  /\ nRejected' = nRejected + 1
  /\ k \in 1..Len(startCalls)
  /\ startCalls' = RemoveAt(startCalls, k)
  /\ connectTimeouts' = Append(connectTimeouts, startCalls[k])
  /\ UNCHANGED <<lastOp, playerVars, recorderVars>>
  /\ UNCHANGED <<hookVars, hookHist, wireVars, homeVars, selectCalls,
                 endCalls, nSessions, nMessages, homeHist>>

\* handleStartConsult: api.startConsult rejected (caught and logged)
StartConsultFail(k) ==
  /\ UNCHANGED dangerCalls
  /\ nRejected' = nRejected + 1
  /\ k \in 1..Len(startCalls)
  /\ startCalls' = RemoveAt(startCalls, k)
  /\ UNCHANGED <<lastOp, playerVars, recorderVars>>
  /\ UNCHANGED <<hookVars, hookHist, wireVars, homeVars, selectCalls,
                 connectTimeouts, endCalls, nSessions, nMessages, homeHist>>

\* The 100 ms timeout of handleStartConsult fires: ws.connect() of the render
\* in which Start was clicked.
ConnectTimeout(k) ==
  /\ UNCHANGED <<dangerCalls, nRejected>>
  /\ k \in 1..Len(connectTimeouts)
  /\ CanConnect(HookState)
  /\ SetHook(connect(HookState, connectTimeouts[k]))
  /\ connectTimeouts' = RemoveAt(connectTimeouts, k)
  /\ lastOp' = "connect"
  /\ closedByClient' = FALSE
  /\ UNCHANGED <<hookRest, streak, fromOpen, wireVars, homeVars, selectCalls,
                 startCalls, endCalls, nSessions, nMessages, homeHist,
                 playerVars, recorderVars>>

\* handleEndConsult up to its await: the End Consult button of the dashboard
EndConsultClick ==
  /\ UNCHANGED <<dangerCalls, nRejected>>
  /\ sessionId # NULL
  /\ Len(endCalls) < MaxPending
  /\ \E failAt \in StopFailures(RecorderState) :
       /\ SetRecorder(stopRecording(RecorderState, failAt))
       /\ recOp' = IF RecorderIdle THEN recOp
                   ELSE RecOp("stop", failAt, HeldPipelines)
       /\ endCalls' = IF failAt = "none" THEN Append(endCalls, sessionId)
                      ELSE endCalls
  /\ UNCHANGED <<emitted, resample>>
  /\ UNCHANGED <<lastOp, playerVars>>
  /\ UNCHANGED <<hookVars, hookHist, wireVars, homeVars, selectCalls, startCalls,
                 connectTimeouts, nSessions, nMessages, homeHist>>

\* The EndConsultResponse of the backend for session sid
EndConsultResponse(sid) ==
  [session_id |-> sid, soap_note |-> "soap", billing |-> "invoiced",
   duration_minutes |-> 0]

\* The state that handleEndConsult sets once api.endConsult resolved
EndedState(st, response) ==
  [st EXCEPT !.sessionSummary = <<response>>,
             !.sessionId = NULL,
             !.sessionState = "IDLE"]

\* handleEndConsult after its await: the k-th pending call resolved
EndConsultOk(k) ==
  /\ UNCHANGED <<dangerCalls, nRejected>>
  /\ k \in 1..Len(endCalls)
  /\ LET st == EndedState(HomeState, EndConsultResponse(endCalls[k]))
         h == disconnect(HookState) IN
       /\ SetHome(st)
       /\ SetHook(h)
       /\ termObs' = [termObs EXCEPT !.rest = Observed(st, h)]
  /\ timers' = ClearTimeout(timers, reconnectTimerRef)
  /\ endCalls' = RemoveAt(endCalls, k)
  /\ completions' = Completed(completions, SessionIndex(endCalls[k]), "rest")
  /\ lastOp' = "disconnect"
  /\ streak' = 0
  /\ fromOpen' = FALSE
  /\ closedByClient' = TRUE
  /\ UNCHANGED <<isConnected, maxReconnectAttempts, mounted, wireVars,
                 selectCalls, startCalls, connectTimeouts, nSessions, nMessages,
                 pauseCycle, playerVars, recorderVars>>

\* handleEndConsult: api.endConsult rejected (caught and logged)
EndConsultFail(k) ==
  /\ UNCHANGED <<dangerCalls, nRejected>>
  /\ k \in 1..Len(endCalls)
  /\ endCalls' = RemoveAt(endCalls, k)
  /\ UNCHANGED <<lastOp, playerVars, recorderVars>>
  /\ UNCHANGED <<hookVars, hookHist, wireVars, homeVars, selectCalls, startCalls,
                 connectTimeouts, nSessions, nMessages, homeHist>>

\* The payloads of endSession, pauseSession, resumeSession, triggerSafetyCheck
Frame(type) == [type |-> type, text |-> NULL, speaker |-> NULL]
\* sendTranscript(text, speaker = 'doctor')
DefaultSpeaker == "doctor"
TranscriptFrame(text, speaker) ==
  [type |-> "transcript", text |-> text, speaker |-> speaker]
\* The command is recorded when its frame was transmitted
Issued(cmd) ==
  issued' = IF sent' # sent THEN Append(issued, cmd) ELSE issued

\* The Pause button (shown while !isPaused): ws.pauseSession()
Pause ==
  /\ sessionId # NULL
  /\ ~isPaused
  /\ CanSend
  /\ sent' = sendMessage(sent, HookState, Frame("pause"))
  /\ Issued("pauseSession")
  /\ UNCHANGED <<lastOp, playerVars, recorderVars>>
  /\ UNCHANGED <<hookVars, hookHist, lastMessage, inbound, audioIn, homeVars, asyncVars,
                 homeHist>>

\* The Resume button (shown while isPaused): ws.resumeSession()
Resume ==
  /\ sessionId # NULL
  /\ isPaused
  /\ CanSend
  /\ sent' = sendMessage(sent, HookState, Frame("resume"))
  /\ Issued("resumeSession")
  /\ UNCHANGED <<lastOp, playerVars, recorderVars>>
  /\ UNCHANGED <<hookVars, hookHist, lastMessage, inbound, audioIn, homeVars, asyncVars,
                 homeHist>>

\* triggerSafetyCheck() and endSession() of the hook
HookCommand(type) ==
  /\ type \in {"check_safety", "end"}
  /\ sessionId # NULL
  /\ CanSend
  /\ sent' = sendMessage(sent, HookState, Frame(type))
  /\ Issued(IF type = "end" THEN "endSession" ELSE "triggerSafetyCheck")
  /\ UNCHANGED <<lastOp, playerVars, recorderVars>>
  /\ UNCHANGED <<hookVars, hookHist, lastMessage, inbound, audioIn, homeVars, asyncVars,
                 homeHist>>

\* handleManualTranscript(text): ws.sendTranscript(text) when ws.isConnected
ManualTranscript(text) ==
  /\ sessionId # NULL
  /\ CanSend
  /\ sent' = IF isConnected
             THEN sendMessage(sent, HookState, TranscriptFrame(text, DefaultSpeaker))
             ELSE sent
  /\ Issued("sendTranscript")
  /\ UNCHANGED <<lastOp, playerVars, recorderVars>>
  /\ UNCHANGED <<hookVars, hookHist, lastMessage, inbound, audioIn, homeVars, asyncVars,
                 homeHist>>

\* handleSimulateDanger up to its await: the Simulate Danger button
SimulateDanger ==
  /\ sessionId # NULL
  /\ dangerCalls < MaxPending
  /\ Work < MaxWork
  /\ dangerCalls' = dangerCalls + 1
  /\ UNCHANGED <<lastOp, playerVars, recorderVars>>
  /\ UNCHANGED <<hookVars, hookHist, wireVars, homeVars, selectCalls, startCalls,
                 connectTimeouts, endCalls, nSessions, nMessages, nRejected,
                 homeHist>>

\* handleSimulateDanger after its await: the result is not used
SimulateDangerOk ==
  /\ dangerCalls > 0
  /\ dangerCalls' = dangerCalls - 1
  /\ UNCHANGED <<lastOp, playerVars, recorderVars>>
  /\ UNCHANGED <<hookVars, hookHist, wireVars, homeVars, selectCalls, startCalls,
                 connectTimeouts, endCalls, nSessions, nMessages, nRejected,
                 homeHist>>

\* handleSimulateDanger: api.simulateDanger rejected (caught and logged)
SimulateDangerFail ==
  /\ dangerCalls > 0
  /\ dangerCalls' = dangerCalls - 1
  /\ UNCHANGED <<lastOp, playerVars, recorderVars>>
  /\ UNCHANGED <<hookVars, hookHist, wireVars, homeVars, selectCalls, startCalls,
                 connectTimeouts, endCalls, nSessions, nMessages, nRejected,
                 homeHist>>

\* handleCloseSummary: the close button of the summary modal
CloseSummary ==
  /\ sessionSummary # <<>>
  /\ SetHome([HomeState EXCEPT !.sessionSummary = <<>>,
                               !.patientData = NULL,
                               !.selectedPatientId = NULL])
  /\ UNCHANGED <<lastOp, playerVars, recorderVars>>
  /\ UNCHANGED <<hookVars, hookHist, wireVars, asyncVars, homeHist>>

\* A variant of the effect that looks at the paused flag only
TimerRunning_IgnoresState == sessionId # NULL /\ ~isPaused

\* The condition under which the timer effect sets its one-second interval
TimerRunning == sessionId # NULL /\ sessionState = "LISTENING" /\ ~isPaused

\* The interval of the timer effect fires: setElapsedSeconds(prev => prev + 1)
Tick ==
  /\ TimerRunning
  /\ elapsedSeconds < MaxElapsed
  /\ Work < MaxWork
  /\ SetHome([HomeState EXCEPT !.elapsedSeconds = @ + 1])
  /\ UNCHANGED <<lastOp, playerVars, recorderVars>>
  /\ UNCHANGED <<hookVars, hookHist, wireVars, asyncVars, homeHist>>

\* ws.onmessage of socket i with a text frame that decodes to m:
\* setLastMessage(m); onMessage(m).
ReceiveMessage(i, m) ==
  /\ UNCHANGED <<dangerCalls, nRejected>>
  /\ sockets[i].readyState = "OPEN"
  /\ HasRoom
  /\ nMessages' = nMessages + 1
  /\ inbound' = Append(inbound, "json")
  /\ lastMessage' = m
  /\ LET st == handleWebSocketMessage(HomeState, m, sockets[i].closure) IN
       /\ SetHome(st)
       /\ IF m.type = "consult_ended"
          THEN /\ termObs' = [termObs EXCEPT !.event = Observed(st, HookState)]
               /\ completions' = Completed(completions, SessionIndex(sockets[i].closure.session), "event")
          ELSE UNCHANGED <<termObs, completions>>
  /\ pauseCycle' = CycleAfter(pauseCycle, HomeState, m)
  /\ UNCHANGED <<lastOp, playerVars, recorderVars>>
  /\ UNCHANGED <<hookVars, hookHist, sent, issued, audioIn, selectCalls, startCalls,
                 connectTimeouts, endCalls, nSessions>>

\* ws.onmessage of socket i with a text frame that JSON.parse rejects
ReceiveBadJson(i) ==
  /\ UNCHANGED <<dangerCalls, nRejected>>
  /\ sockets[i].readyState = "OPEN"
  /\ HasRoom
  /\ nMessages' = nMessages + 1
  /\ inbound' = Append(inbound, "undecodable")
  /\ UNCHANGED <<lastOp, playerVars, recorderVars>>
  /\ UNCHANGED <<hookVars, hookHist, lastMessage, sent, issued, audioIn, homeVars,
                 selectCalls, startCalls, connectTimeouts, endCalls, nSessions,
                 homeHist>>

InitPage ==
  /\ Init
  /\ maxReconnectAttempts = DefaultMaxReconnectAttempts

NextPage ==
  \/ \E p \in PatientIds : SelectPatientClick(p)
  \/ \E p \in PatientIds : SelectPatientOk(p)
  \/ \E p \in PatientIds : SelectPatientFail(p)
  \/ StartConsultClick
  \/ \E k \in 1..MaxPending : StartConsultOk(k)
  \/ \E k \in 1..MaxPending : StartConsultFail(k)
  \/ \E k \in 1..MaxSessions : ConnectTimeout(k)
  \/ EndConsultClick
  \/ \E k \in 1..MaxPending : EndConsultOk(k)
  \/ \E k \in 1..MaxPending : EndConsultFail(k)
  \/ Pause
  \/ Resume
  \/ \E type \in {"check_safety", "end"} : HookCommand(type)
  \/ ManualTranscript("note")
  \/ SimulateDanger
  \/ SimulateDangerOk
  \/ SimulateDangerFail
  \/ CloseSummary
  \/ Tick
  \/ \E i \in 1..Len(sockets) : SocketOpen(i)
  \/ \E i \in 1..Len(sockets) : SocketCloseEvent(i)
  \/ \E t \in timers : TimerFire(t)
  \/ \E i \in 1..Len(sockets), m \in Messages : ReceiveMessage(i, m)
  \/ \E i \in 1..Len(sockets) : ReceiveBadJson(i)

SpecPage == InitPage /\ [][NextPage]_vars

--------------------------------------------------------------------------
\* Properties of the reconnection manager (checked under Spec)


\* C2: after an intentional close (disconnect() or the unmount cleanup) and
\* until connect() is called again by the client, no retry timer is pending
\* and no channel is created (there is no current channel).
C2_NoReconnectAfterIntentionalClose ==
  closedByClient => (timers = {} /\ wsRef = NoSocket)

\* C3: the retry armed by the N-th consecutive unintentional close with no
\* successful open in between has delay RECONNECT_BASE_DELAY * 2^(N-1).
C3_NthRetryDelay ==
  \A t \in timers : t.delay = RECONNECT_BASE_DELAY * Pow2(t.n - 1)

\* C4: at most one channel is live (CONNECTING or OPEN), namely the current
\* one, so every channel that stopped being current was closed first; and a
\* connect() called by the client while the current channel is OPEN changes
\* no socket, ref, flag, counter or timer.
C4_OneLiveChannel ==
  [][ /\ \A i \in 1..Len(sockets') : (sockets'[i].readyState \in {"CONNECTING", "OPEN"}) => i = wsRef'
      /\ (lastOp' = "connect" /\ CurrentOpen) => UNCHANGED hookVars ]_vars

\* C4 happens: a connect() was just called on an OPEN current channel, while
\* a channel that connect() replaced earlier is still closing.
C4_Witness ==
  /\ lastOp = "connect"
  /\ CurrentOpen
  /\ \E i \in 1..Len(sockets) : i # wsRef /\ sockets[i].readyState = "CLOSING"

\* C5: the close event of a channel that is no longer the current one never
\* arms a retry.
C5_StaleCloseArmsNoRetry ==
  \A t \in timers : ~t.stale

\* C6: at most maxReconnectAttempts retries are made in a streak, and once
\* the cap is reached (the last retry's channel has closed) no retry timer is
\* pending and isConnected is false.
CapReached ==
  /\ reconnectAttemptsRef >= maxReconnectAttempts
  /\ wsRef # NoSocket
  /\ sockets[wsRef].readyState = "CLOSED"

C6_BoundedReconnection ==
  /\ reconnectAttemptsRef <= maxReconnectAttempts
  /\ CapReached => (timers = {} /\ ~isConnected)

\* C7: a successful open resets the attempt counter: until the next close
\* the counter is 0 (full budget), and the first retry armed after the open
\* has delay RECONNECT_BASE_DELAY.
C7_OpenResetsBackoff ==
  /\ (fromOpen /\ streak = 0) => reconnectAttemptsRef = 0
  /\ \A t \in timers : (t.afterOpen /\ t.n = 1) => t.delay = RECONNECT_BASE_DELAY

--------------------------------------------------------------------------
\* Properties of the session mirror (checked under SpecPage)

\* The step handles an inbound text frame of the given type.
MessageStep(type) ==
  /\ Len(inbound') = Len(inbound) + 1
  /\ inbound'[Len(inbound')] = "json"
  /\ lastMessage'.type = type
\* The step is handleStartConsult resuming with the start-session response.
StartAckStep == nSessions' = nSessions + 1
\* The step is handleEndConsult resuming with the end-session outcome.
EndAckStep == Len(endCalls') < Len(endCalls)

\* C1: processing a state_change sets the mirrored state to its new_state
\* when that is one of the six recognized values and leaves the mirrored
\* state as it was otherwise; hence after any sequence of state_change
\* messages the mirror is the last recognized new_state.
C1_MirrorIsLastRecognized ==
  [][ MessageStep("state_change") =>
        sessionState' = IF lastMessage'.new_state \in SessionStates
                        THEN lastMessage'.new_state
                        ELSE sessionState ]_vars

\* C8: the REST acknowledgment and the consult_ended event leave the same
\* observable terminal state, and no session has its completion side effects
\* performed by both paths.
C8_CompletionPathsConverge ==
  /\ (termObs.rest # <<>> /\ termObs.event # <<>>) => termObs.rest = termObs.event
  /\ \A k \in 1..Len(SessionIds) : Cardinality(completions[k]) <= 1

\* C9: COMPLETED is terminal: while the session is the same the mirrored
\* state stays COMPLETED, and a COMPLETED session has been discarded.
C9_CompletedIsTerminal ==
  [][ /\ (sessionState = "COMPLETED" /\ sessionId' = sessionId) => sessionState' = "COMPLETED"
      /\ sessionState' = "COMPLETED" => sessionId' = NULL ]_vars

--------------------------------------------------------------------------
\* Properties of the duration timer, the overlay and the alert history
\* (checked under SpecPage)

\* C11: the elapsed duration accrues only while the mirrored state is
\* LISTENING: a step that ends with the mirrored state not LISTENING, or with
\* no session, leaves elapsedSeconds unchanged, and elapsedSeconds increases
\* only in a step taken with a session whose mirrored state is LISTENING.
C11_AccruesOnlyWhileListening ==
  [][ /\ (sessionState' # "LISTENING" \/ sessionId' = NULL)
           => elapsedSeconds' = elapsedSeconds
      /\ elapsedSeconds' > elapsedSeconds
           => (sessionId # NULL /\ sessionState = "LISTENING") ]_vars

\* A session that accrued time and then left LISTENING
C11_Witness ==
  sessionId # NULL /\ sessionState = "PAUSED" /\ elapsedSeconds > 0

\* C12: whenever a session is active and its mirrored state is LISTENING, the
\* one-second duration timer is running.
C12_TimerRunsWhileListening ==
  (sessionId # NULL /\ sessionState = "LISTENING") => TimerRunning

\* C13: across a pause/resume cycle elapsedSeconds keeps the value it had
\* when the session was paused and continues from it on resume; it grows by
\* one per tick and drops (to 0) only when a session is started.
C13_PauseResumeKeepsElapsed ==
  [][ /\ pauseCycle'.phase = "paused" => elapsedSeconds' = pauseCycle'.at
      /\ (pauseCycle.phase = "paused" /\ pauseCycle'.phase = "resumed")
           => elapsedSeconds' = pauseCycle.at
      /\ pauseCycle'.phase = "resumed" => elapsedSeconds' >= pauseCycle'.at
      /\ elapsedSeconds' > elapsedSeconds => elapsedSeconds' = elapsedSeconds + 1
      /\ elapsedSeconds' < elapsedSeconds
           => (StartAckStep /\ elapsedSeconds' = 0) ]_vars

\* A session paused after time had accrued, and resumed
C13_Witness ==
  /\ pauseCycle.phase = "resumed" /\ pauseCycle.at > 0
  /\ sessionState = "LISTENING" /\ ~isPaused /\ elapsedSeconds = pauseCycle.at

\* C14: processing a state_change to INTERRUPTING makes the overlay active,
\* whatever the mirrored state and the overlay were before.
C14_InterruptingRaisesOverlay ==
  [][ (MessageStep("state_change") /\ lastMessage'.new_state = "INTERRUPTING")
        => isInterrupting' ]_vars

\* The overlay raised by a state_change that did not come from LISTENING
C14_Witness ==
  /\ lastMessage.type = "state_change" /\ lastMessage.new_state = "INTERRUPTING"
  /\ isInterrupting /\ isPaused /\ sessionState = "INTERRUPTING"

\* C15: processing interruption_end makes the overlay inactive and changes
\* nothing else of the page.
C15_InterruptionEndClearsOnlyOverlay ==
  [][ MessageStep("interruption_end")
        => /\ ~isInterrupting'
           /\ UNCHANGED <<sessionId, sessionState, isPaused, elapsedSeconds,
                          selectedPatientId, patientData, transcriptEntries,
                          safetyAlerts, currentSafetyLevel, interruptionMessage,
                          clinicalIntent, sessionSummary>> ]_vars

\* The overlay cleared after an interruption, its transcript entry retained
C15_Witness ==
  /\ lastMessage.type = "interruption_end" /\ ~isInterrupting
  /\ Len(transcriptEntries) = 1 /\ transcriptEntries[1].speaker = "system"
  /\ interruptionMessage = "Serotonin syndrome risk"

\* The alert message of an interruption_start: its text, or the default
AlertText(m) == IF m.text = NULL THEN "Clinical alert detected!" ELSE m.text

\* C16: processing interruption_start makes the overlay active with the
\* carried text, or the default message when the text is absent, and appends
\* exactly one system transcript entry "[ALERT] " followed by that message.
C16_InterruptionStartDocumentsAlert ==
  [][ MessageStep("interruption_start")
        => /\ isInterrupting'
           /\ interruptionMessage' = AlertText(lastMessage')
           /\ transcriptEntries' =
                 Append(transcriptEntries,
                        [text |-> <<"[ALERT] ", AlertText(lastMessage')>>,
                         speaker |-> "system"]) ]_vars

\* C17: each safety_alert is prepended to the alert history, which is
\* otherwise untouched within a session, and the current severity is the
\* level of the most recently processed event, also when it is lower.
C17_AlertsNewestFirst ==
  [][ /\ MessageStep("safety_alert")
           => /\ Len(safetyAlerts') = Len(safetyAlerts) + 1
              /\ Tail(safetyAlerts') = safetyAlerts
              /\ Head(safetyAlerts').level = lastMessage'.safety_level
              /\ currentSafetyLevel' = lastMessage'.safety_level
      /\ (~MessageStep("safety_alert") /\ ~StartAckStep)
           => UNCHANGED <<safetyAlerts, currentSafetyLevel>> ]_vars

\* SAFE processed after CRITICAL
C17_Witness ==
  /\ Len(safetyAlerts) = 2
  /\ safetyAlerts[1].level = "SAFE" /\ safetyAlerts[2].level = "CRITICAL"
  /\ currentSafetyLevel = "SAFE"

--------------------------------------------------------------------------
\* useAudioPlayer.  Fragments are numbered in arrival order; a playback is a
\* playAccumulated() call in flight: the flush it plays and the await it is
\* suspended at ("resume", "decode" or "play").

\* A variant of playAudioChunk that arms a timer without cancelling the last
RearmedTimers_NoCancel(ts, ref, id, t) ==
  ts \cup {[id |-> id, due |-> t + FLUSH_DELAY]}

\* playAudioChunk: clearTimeout(flushTimerRef.current); setTimeout(..., 500)
RearmedTimers(ts, ref, id, t) ==
  ClearTimeout(ts, ref) \cup {[id |-> id, due |-> t + FLUSH_DELAY]}

\* A variant of playAccumulated that leaves the buffer as it was
BufferAfterFlush_Keeps(chunks) == chunks

\* playAccumulated: chunksRef.current = []
BufferAfterFlush(chunks) == <<>>

\* A variant of stopPlayback that leaves the buffer as it was
BufferAfterStop_Keeps(chunks) == chunks

\* stopPlayback: chunksRef.current = []
BufferAfterStop(chunks) == <<>>

\* A variant of playAccumulated without its finally clause on a decode error
AfterPlayback_StuckOnError(how) == IF how = "failed" THEN isPlaying ELSE FALSE

\* playAccumulated: finally { setIsPlaying(false) }
AfterPlayback(how) == FALSE

\* A timer whose delay has elapsed runs before anything else happens
TimerDue == \E t \in flushTimers : t.due <= now

\* getAudioContext(): the state of the context it returns; a context created
\* now starts running, or suspended under the autoplay policy
ContextStates ==
  IF audioContextRef = "none" THEN {"suspended", "running"} ELSE {audioContextRef}

\* stoppedAt: the await at which stopPlayback() found the call, or "none"
Playback(id, pc) == [id |-> id, pc |-> pc, stoppedAt |-> "none"]
Outcome(p, how) == [id |-> p.id, how |-> how, stoppedAt |-> p.stoppedAt]
InFlight == {p \in playbacks : p.pc \in {"decode", "play"}}

\* playAudioChunk(audioData)
DoPlayAudioChunk ==
  /\ LET id == Len(arrivedAt) + 1 IN
       /\ chunksRef' = Append(chunksRef, id)
       /\ flushTimers' = RearmedTimers(flushTimers, flushTimerRef, id, now)
       /\ flushTimerRef' = id
  /\ arrivedAt' = Append(arrivedAt, now)
  /\ UNCHANGED <<isPlaying, audioContextRef, playbacks, now, flushes, stopped,
                 playerHist>>

PlayAudioChunk ==
  /\ Len(arrivedAt) < MaxFragments
  /\ ~TimerDue
  /\ DoPlayAudioChunk
  /\ UNCHANGED <<pageVars, recorderVars>>

\* The flush timer fires: flushTimerRef.current = null; playAccumulated() up
\* to its first await
FlushTimerFire(t) ==
  /\ t \in flushTimers
  /\ t.due <= now
  /\ flushTimers' = flushTimers \ {t}
  /\ flushTimerRef' = NoTimer
  /\ chunksRef' = BufferAfterFlush(chunksRef)
  /\ IF chunksRef = <<>>
     THEN UNCHANGED <<isPlaying, audioContextRef, playbacks, flushes>>
     ELSE /\ flushes' = Append(flushes, chunksRef)
          /\ \E c \in ContextStates :
               /\ audioContextRef' = c
               /\ IF c = "suspended"
                  THEN /\ playbacks' = playbacks \cup {Playback(Len(flushes) + 1, "resume")}
                       /\ UNCHANGED isPlaying
                  ELSE /\ playbacks' = playbacks \cup {Playback(Len(flushes) + 1, "decode")}
                       /\ isPlaying' = TRUE
  /\ UNCHANGED <<now, arrivedAt, stopped, playerHist>>
  /\ UNCHANGED <<pageVars, recorderVars>>

\* audioContext.resume() resolved: setIsPlaying(true); decodeAudioData(...)
ResumeDone(p) ==
  /\ p \in playbacks /\ p.pc = "resume"
  /\ audioContextRef' = "running"
  /\ isPlaying' = TRUE
  /\ playbacks' = (playbacks \ {p}) \cup {[p EXCEPT !.pc = "decode"]}
  /\ UNCHANGED <<chunksRef, flushTimerRef, flushTimers, now, arrivedAt, flushes,
                 stopped, playerHist>>
  /\ UNCHANGED <<pageVars, recorderVars>>

\* audioContext.resume() rejected: playAccumulated() rejects before its try
ResumeFail(p) ==
  /\ p \in playbacks /\ p.pc = "resume"
  /\ playbacks' = playbacks \ {p}
  /\ outcomes' = outcomes \cup {Outcome(p, "rejected")}
  /\ UNCHANGED <<chunksRef, flushTimerRef, flushTimers, isPlaying, audioContextRef,
                 now, arrivedAt, flushes, stopped, dropped>>
  /\ UNCHANGED <<pageVars, recorderVars>>

\* decodeAudioData resolved: source.start()
DecodeOk(p) ==
  /\ p \in playbacks /\ p.pc = "decode"
  /\ playbacks' = (playbacks \ {p}) \cup {[p EXCEPT !.pc = "play"]}
  /\ UNCHANGED <<chunksRef, flushTimerRef, flushTimers, isPlaying, audioContextRef,
                 now, arrivedAt, flushes, stopped, playerHist>>
  /\ UNCHANGED <<pageVars, recorderVars>>

\* decodeAudioData rejected: catch, then finally setIsPlaying(false)
DecodeFail(p) ==
  /\ p \in playbacks /\ p.pc = "decode"
  /\ playbacks' = playbacks \ {p}
  /\ isPlaying' = AfterPlayback("failed")
  /\ outcomes' = outcomes \cup {Outcome(p, "failed")}
  /\ UNCHANGED <<chunksRef, flushTimerRef, flushTimers, audioContextRef,
                 now, arrivedAt, flushes, stopped, dropped>>
  /\ UNCHANGED <<pageVars, recorderVars>>

\* source.onended: the promise resolves, finally setIsPlaying(false)
PlayEnded(p) ==
  /\ p \in playbacks /\ p.pc = "play"
  /\ playbacks' = playbacks \ {p}
  /\ isPlaying' = AfterPlayback("ended")
  /\ outcomes' = outcomes \cup {Outcome(p, "ended")}
  /\ UNCHANGED <<chunksRef, flushTimerRef, flushTimers, audioContextRef,
                 now, arrivedAt, flushes, stopped, dropped>>
  /\ UNCHANGED <<pageVars, recorderVars>>

\* stopPlayback()
StopPlayback ==
  /\ chunksRef' = BufferAfterStop(chunksRef)
  /\ flushTimers' = ClearTimeout(flushTimers, flushTimerRef)
  /\ flushTimerRef' = NoTimer
  /\ isPlaying' = FALSE
  /\ stopped' = TRUE
  /\ dropped' = dropped \cup {chunksRef[k] : k \in 1..Len(chunksRef)}
  /\ playbacks' = {[p EXCEPT !.stoppedAt = IF @ = "none" THEN p.pc ELSE @]
                    : p \in playbacks}
  /\ UNCHANGED <<audioContextRef, now, arrivedAt, flushes, outcomes>>
  /\ UNCHANGED <<pageVars, recorderVars>>

\* Time passes, unless a timer is due
Advance ==
  /\ ~TimerDue
  /\ now + ClockStep <= MaxTime
  /\ now' = now + ClockStep
  /\ UNCHANGED <<chunksRef, flushTimerRef, flushTimers, isPlaying, audioContextRef,
                 playbacks, arrivedAt, flushes, stopped, playerHist>>
  /\ UNCHANGED <<pageVars, recorderVars>>

NextPlayer ==
  \/ PlayAudioChunk
  \/ \E t \in flushTimers : FlushTimerFire(t)
  \/ \E p \in playbacks : ResumeDone(p)
  \/ \E p \in playbacks : ResumeFail(p)
  \/ \E p \in playbacks : DecodeOk(p)
  \/ \E p \in playbacks : DecodeFail(p)
  \/ \E p \in playbacks : PlayEnded(p)
  \/ StopPlayback
  \/ Advance

SpecPlayer == InitPage /\ [][NextPlayer]_vars

--------------------------------------------------------------------------
\* Properties of the playback accumulator (checked under SpecPlayer)

Range(q) == {q[k] : k \in 1..Len(q)}
Flushed(f) == \E i \in 1..Len(flushes) : f \in Range(flushes[i])
FlushOf(f) == CHOOSE i \in 1..Len(flushes) : f \in Range(flushes[i])
Buffered(f) == f \in Range(chunksRef)
Gap(f) == arrivedAt[f + 1] - arrivedAt[f]
RECURSIVE Flatten(_)
Flatten(qs) == IF qs = <<>> THEN <<>> ELSE Head(qs) \o Flatten(Tail(qs))

\* C18: two consecutive fragments are part of the same flush exactly when
\* the second arrived less than 500 ms after the first.
C18_DebounceMergesWithinQuietInterval ==
  \A f \in 1..(Len(arrivedAt) - 1) :
    /\ (Flushed(f) /\ Flushed(f + 1))
         => (FlushOf(f) = FlushOf(f + 1) <=> Gap(f) < FLUSH_DELAY)
    /\ (Buffered(f) /\ Buffered(f + 1)) => Gap(f) < FLUSH_DELAY
    /\ (Flushed(f) /\ Buffered(f + 1)) => Gap(f) >= FLUSH_DELAY

\* Fragments 100 ms apart in one flush, the next, 600 ms later, in another
C18_Witness ==
  /\ Len(arrivedAt) = 3 /\ Gap(1) = 100 /\ Gap(2) = 600
  /\ flushes = << <<1, 2>>, <<3>> >>

\* C19: each flush takes the whole buffer and leaves it empty; without
\* stopPlayback, the flushes followed by the buffer are the fragments in
\* arrival order, each exactly once.
C19_EveryFragmentFlushedOnce ==
  [][ /\ Len(flushes') > Len(flushes)
           => (flushes'[Len(flushes')] = chunksRef /\ chunksRef' = <<>>)
      /\ ~stopped'
           => Flatten(flushes') \o chunksRef'
                = [f \in 1..Len(arrivedAt') |-> f] ]_vars

\* Two flushes taken, the first of two fragments, and nothing stopped
C19_Witness ==
  ~stopped /\ Len(flushes) = 2 /\ Len(flushes[1]) = 2 /\ chunksRef = <<>>

\* C20: at most one flush is being decoded or played at any time.
C20_SequentialPlayback == Cardinality(InFlight) <= 1

\* The step in which the decode of playback p fails
DecodeFailStep(p) ==
  p.pc = "decode" /\ Outcome(p, "failed") \in outcomes' \ outcomes

\* C21: a decode failure is absorbed: the call ends without rejecting, the
\* playing flag is reset, the failed fragments are not buffered again and
\* the buffer and the flush timer are untouched, so that later fragments are
\* flushed; the flag is never left set with no playback in flight.
C21_DecodeFailureAbsorbed ==
  [][ /\ \A p \in playbacks :
           DecodeFailStep(p)
             => /\ ~isPlaying'
                /\ \A q \in playbacks' : q.id # p.id
                /\ \A o \in outcomes' : o.id = p.id => o.how # "rejected"
                /\ \A f \in Range(flushes[p.id]) : f \notin Range(chunksRef')
                /\ UNCHANGED <<chunksRef, flushTimers, flushTimerRef>>
      /\ playbacks' = {} => ~isPlaying' ]_vars

\* A flush playing after the decode of an earlier flush failed
C21_Witness ==
  \E o \in outcomes, p \in playbacks :
    /\ o.how = "failed" /\ p.id > o.id /\ p.pc = "play"
    /\ playbacks = {p} /\ isPlaying

\* The step in which stopPlayback discards buffered fragments
StopStep == dropped' # dropped
NoDroppedFlushed == \A f \in dropped : ~Flushed(f)

\* C22: stopPlayback empties the buffer and leaves no flush timer pending,
\* and the fragments it discarded are never part of a flush.
C22_StopDiscardsBuffer ==
  [][ /\ StopStep => (chunksRef' = <<>> /\ flushTimers' = {}
                      /\ flushTimerRef' = NoTimer)
      /\ NoDroppedFlushed' ]_vars

\* A fragment discarded by stopPlayback, and a later fragment flushed
C22_Witness ==
  \E f \in dropped : \E i \in 1..Len(flushes) :
    \E g \in Range(flushes[i]) : g > f

\* C23: a flush that stopPlayback found awaiting the context resume or the
\* decode never starts playing, and isPlaying is not false while a flush
\* started before the stop is decoding or playing.
C23_StopAbortsPendingFlush ==
  \A p \in playbacks :
    /\ p.stoppedAt \in {"resume", "decode"} => p.pc # "play"
    /\ (p.stoppedAt # "none" /\ p.pc \in {"decode", "play"}) => isPlaying

--------------------------------------------------------------------------
\* The operations and events of useAudioRecorder

\* startRecording() up to its await: setError(null); getUserMedia(...)
DoStart ==
  /\ Len(pipelines) < MaxStarts
  /\ error' = NULL
  /\ pipelines' = Append(pipelines, NewPipeline)
  /\ recOp' = RecOp("start", "none", {Len(pipelines) + 1})
  /\ UNCHANGED <<isRecording, streamRef, audioCtxRef, processorRef, sourceRef,
                 emitted, resample>>

\* stopRecording(), whose step failAt throws
DoStop(failAt) ==
  /\ failAt \in StopFailures(RecorderState)
  /\ SetRecorder(stopRecording(RecorderState, failAt))
  /\ recOp' = RecOp("stop", failAt, HeldPipelines)
  /\ UNCHANGED <<emitted, resample>>

StartRecording ==
  /\ DoStart
  /\ UNCHANGED <<pageVars, playerVars>>

StopRecording(failAt) ==
  /\ DoStop(failAt)
  /\ UNCHANGED <<pageVars, playerVars>>

\* toggleRecording(), of the render that sees isRecording
ToggleRecording ==
  /\ IF isRecording
     THEN \E failAt \in StopFailures(RecorderState) : DoStop(failAt)
     ELSE DoStart
  /\ UNCHANGED <<pageVars, playerVars>>

\* getUserMedia resolved for the call that owns pipeline k: the rest of
\* startRecording, whose setup step failAt throws
GetUserMediaOk(k, failAt) ==
  /\ k \in 1..Len(pipelines)
  /\ pipelines[k].stream = "pending"
  /\ SetRecorder(SetupFrom(RecorderState, k, failAt))
  /\ recOp' = RecOp(IF failAt = "none" THEN "started" ELSE "startFailed",
                    failAt, {k})
  /\ UNCHANGED <<emitted, resample>>
  /\ UNCHANGED <<pageVars, playerVars>>

\* getUserMedia rejected (permission denied, no device): the catch clause
GetUserMediaFail(k) ==
  /\ k \in 1..Len(pipelines)
  /\ pipelines[k].stream = "pending"
  /\ SetRecorder(StartFailed([RecorderState EXCEPT !.pipelines[k].stream = "denied"]))
  /\ recOp' = RecOp("startFailed", "permission", {k})
  /\ UNCHANGED <<emitted, resample>>
  /\ UNCHANGED <<pageVars, playerVars>>

\* The processor of pipeline k fires onaudioprocess, which it does while it
\* is connected in a running context: onAudioChunk(pcmBuffer), which is
\* if (ws.isConnected) ws.sendAudio(chunk) of the render that started k
Emitting(k) ==
  pipelines[k].processor = "connected" /\ pipelines[k].ctx = "open"
EmitChunk(k) ==
  /\ k \in 1..Len(pipelines)
  /\ Emitting(k)
  /\ Len(emitted) < MaxChunks
  /\ emitted' = Append(emitted, k)
  /\ sent' = IF pipelines[k].connected THEN sendAudio(sent, HookState) ELSE sent
  /\ Issued("sendAudio")
  /\ UNCHANGED <<isRecording, error, streamRef, audioCtxRef, processorRef,
                 sourceRef, pipelines, recOp, resample>>
  /\ UNCHANGED <<hookVars, histVars, lastMessage, inbound, audioIn, homeVars, asyncVars,
                 homeHist, playerVars>>

NextRecorder ==
  \/ StartRecording
  \/ \E failAt \in {"none", "processor", "source", "context", "tracks"} :
       StopRecording(failAt)
  \/ ToggleRecording
  \/ \E k \in 1..MaxStarts, failAt \in {"none", "context", "source", "processor"} :
       GetUserMediaOk(k, failAt)
  \/ \E k \in 1..MaxStarts : GetUserMediaFail(k)
  \/ \E k \in 1..MaxStarts : EmitChunk(k)

SpecRecorder == InitPage /\ [][NextRecorder]_vars

--------------------------------------------------------------------------
\* Properties of the capture pipeline (checked under SpecRecorder)

\* Nothing of pipeline k is held: no live track, no open context, no node
Released(k) ==
  /\ pipelines[k].stream # "live"
  /\ pipelines[k].ctx # "open"
  /\ pipelines[k].source \notin {"created", "connected"}
  /\ pipelines[k].processor # "connected"

\* C24: after stopRecording, whatever teardown step threw, the processor,
\* the source, the context and the tracks it held are released, the four
\* refs are null and isRecording is false.
C24_StopReleasesEverything ==
  recOp.op = "stop"
    => /\ \A k \in recOp.held : Released(k)
       /\ HeldPipelines = {}
       /\ ~isRecording

\* C25: when startRecording fails, at the permission request or at a later
\* setup step, the error is set, isRecording is false, nothing of its
\* pipeline stays acquired and it emits no chunk.
C25_FailedStartLeavesNothing ==
  /\ recOp.op = "startFailed"
       => /\ error # NULL /\ ~isRecording
          /\ \A k \in recOp.held : Released(k)
  /\ \A k \in 1..Len(pipelines) :
       pipelines[k].stream = "denied"
         => (Released(k) /\ \A j \in 1..Len(emitted) : emitted[j] # k)

--------------------------------------------------------------------------
\* Properties of a discarded channel (checked under Spec)

\* The close event of socket i, which the client had closed, is delivered
ClosedByClientEnds(i) ==
  sockets[i].readyState = "CLOSING" /\ sockets'[i].readyState = "CLOSED"

\* C26: after disconnect() nothing of the discarded channel is observable:
\* its late close event runs no handler of the hook (so no onClose callback)
\* and writes neither isConnected nor lastMessage.
C26_DiscardedChannelUnobservable ==
  [][\A i \in 1..Len(sockets) :
       ClosedByClientEnds(i)
         => (~sockets[i].onclose /\ UNCHANGED <<isConnected, lastMessage>>)]_vars

--------------------------------------------------------------------------
\* Properties of the outbound commands (checked under SpecPage)

\* The frame each command of the hook is to transmit
CommandTypes ==
  [sendTranscript |-> "transcript", endSession |-> "end",
   pauseSession |-> "pause", resumeSession |-> "resume",
   triggerSafetyCheck |-> "check_safety"]
WellFormed(cmd, f) ==
  /\ f.type = CommandTypes[cmd]
  /\ IF cmd = "sendTranscript"
     THEN f.text # NULL /\ f.speaker = "doctor"
     ELSE f.text = NULL /\ f.speaker = NULL

\* C27: a command transmits exactly one text frame, of its own type (a
\* transcript with its text and the speaker "doctor"), on the current
\* channel when that channel is OPEN; when the channel is absent or not
\* OPEN nothing is transmitted, then or later.
C27_CommandsSendOneFrameWhenOpen ==
  [][ /\ ~CurrentOpen => sent' = sent
      /\ sent' # sent
           => /\ Len(sent') = Len(sent) + 1
              /\ SubSeq(sent', 1, Len(sent)) = sent
              /\ Len(issued') = Len(sent')
              /\ sent'[Len(sent')].socket = wsRef
              /\ WellFormed(issued'[Len(sent')], sent'[Len(sent')].frame) ]_vars

C27_Witness ==
  /\ Len(sent) = 2
  /\ issued[1] = "sendTranscript" /\ sent[1].frame.speaker = "doctor"
  /\ issued[2] = "pauseSession"
  /\ ~CurrentOpen

--------------------------------------------------------------------------
\* Properties of malformed inbound frames (checked under SpecPage)

KnownTypes ==
  {"state_change", "transcript", "transcript_added", "safety_alert",
   "clinical_intent", "consult_ended", "interruption_start",
   "interruption_end"}
Delivered(kind) ==
  Len(inbound') = Len(inbound) + 1 /\ inbound'[Len(inbound')] = kind

\* C28: an undecodable text frame changes nothing (no onMessage, lastMessage
\* kept), and a decoded message of an unrecognized type leaves the mirrored
\* state, transcript, alerts, severity, overlay and summary as they were; in
\* both cases the channel that carried the frame stays open.
C28_MalformedFrameDropped ==
  [][ /\ Delivered("undecodable")
           => UNCHANGED <<lastMessage, homeVars, hookVars, homeHist>>
      /\ (Delivered("json") /\ lastMessage'.type \notin KnownTypes)
           => /\ UNCHANGED <<sessionState, isPaused, transcriptEntries,
                             safetyAlerts, currentSafetyLevel, isInterrupting,
                             interruptionMessage, sessionSummary>>
              /\ UNCHANGED hookVars ]_vars

\* A transcript was processed after an undecodable frame had been dropped
C28_Witness ==
  /\ inbound = <<"undecodable", "json">>
  /\ lastMessage.type = "transcript"
  /\ Len(transcriptEntries) = 1

--------------------------------------------------------------------------
\* Properties of the REST calls (checked under SpecPage)

\* The requests awaiting their response, per operation
InFlightRequests ==
  <<Cardinality(selectCalls), Len(startCalls), Len(endCalls), dangerCalls>>
Total(t) == t[1] + t[2] + t[3] + t[4]
Changed(t, u) == {n \in 1..4 : t[n] # u[n]}

\* C29: a REST call issues one request and its settling, resolved or
\* rejected, issues none (no retry); a rejected start-session leaves the
\* session id, the mirrored state, the transcript and the alerts as they
\* were and opens no channel, then or later.
C29_OneRequestNoRetry ==
  [][ /\ Cardinality(Changed(InFlightRequests, InFlightRequests')) <= 1
      /\ Total(InFlightRequests') - Total(InFlightRequests) \in {-1, 0, 1}
      /\ nRejected' # nRejected
           => /\ Total(InFlightRequests') = Total(InFlightRequests) - 1
              /\ UNCHANGED <<homeVars, hookVars, connectTimeouts, nSessions,
                             wireVars>> ]_vars

\* A start-session request was rejected after an earlier session had ended
C29_Witness ==
  /\ nRejected = 1
  /\ nSessions = 1
  /\ sessionId = NULL /\ sessionSummary # <<>>
  /\ Len(transcriptEntries) > 0
  /\ startCalls = <<>> /\ connectTimeouts = <<>>

--------------------------------------------------------------------------
\* Properties of the transcript (checked under SpecPage)

\* The message just delivered is one that is shown in the transcript
TranscriptBearing(m) ==
  \/ m.type \in {"transcript", "transcript_added", "interruption_start"}
  \/ m.type = "clinical_intent" /\ m.intent # <<>>
       /\ Len(m.intent[1].medications) > 0
AppendsOne ==
  /\ Len(transcriptEntries') = Len(transcriptEntries) + 1
  /\ SubSeq(transcriptEntries', 1, Len(transcriptEntries)) = transcriptEntries

\* C30: the transcript is append-only in arrival order: each transcript,
\* transcript_added, interruption_start and medication-bearing
\* clinical_intent message appends exactly one entry at the end, nothing
\* else changes the transcript, and only the start of a new session
\* empties it.
C30_TranscriptAppendOnly ==
  [][ /\ (Delivered("json") /\ TranscriptBearing(lastMessage')) => AppendsOne
      /\ transcriptEntries' # transcriptEntries
           => \/ Delivered("json") /\ TranscriptBearing(lastMessage') /\ AppendsOne
              \/ transcriptEntries' = <<>> /\ nSessions' = nSessions + 1 ]_vars

\* A transcript message was appended after the entry of an interruption
C30_Witness ==
  /\ Len(transcriptEntries) = 2
  /\ transcriptEntries[1].speaker = "system"
  /\ transcriptEntries[2].speaker = "doctor"
  /\ lastMessage.type \in {"transcript", "transcript_added"}

--------------------------------------------------------------------------
\* downsampleFloat32 and the buffers it is applied to

\* The target rate (the default of the sampleRate option) and the native
\* rates of an AudioContext
SampleRates == {16000, 44100, 48000}
Samples == {0, 1}
RECURSIVE Buffers(_)
Buffers(n) ==
  IF n = 0 THEN {<<>>}
  ELSE Buffers(n - 1) \cup {Append(b, x) : b \in {c \in Buffers(n - 1) : Len(c) = n - 1},
                                          x \in Samples}

\* Math.floor and Math.round of the non-negative quotient n / d
Floor(n, d) == n \div d
Round(n, d) == (2 * n + d) \div (2 * d)
Min(a, b) == IF a < b THEN a ELSE b

\* result[i] of downsampleFloat32, as the fraction num / den, and the indices
\* of buffer it read: ratio = srcRate / dstRate, srcIndex = i * ratio
Interpolated(buffer, srcRate, dstRate, i, high) ==
  LET low == Floor(i * srcRate, dstRate)
      frac == (i * srcRate) % dstRate   \* in units of 1 / dstRate
      at(j) == IF j \in 0..(Len(buffer) - 1) THEN buffer[j + 1] ELSE 0
  IN  [num |-> at(low) * (dstRate - frac) + at(high) * frac, den |-> dstRate,
       reads |-> {low, high}]

\* A variant that reads the sample after low without clamping
downsampleFloat32_NoClamp(buffer, srcRate, dstRate) ==
  IF srcRate = dstRate THEN [result |-> buffer, reads |-> {}]
  ELSE LET newLength == Round(Len(buffer) * dstRate, srcRate)
           sample(i) == Interpolated(buffer, srcRate, dstRate, i,
                                     Floor(i * srcRate, dstRate) + 1)
       IN  [result |-> [k \in 1..newLength |->
                          [num |-> sample(k - 1).num, den |-> sample(k - 1).den]],
            reads |-> UNION {sample(i).reads : i \in 0..(newLength - 1)}]

\* downsampleFloat32(buffer, srcRate, dstRate): newLength is
\* Math.round(buffer.length / ratio)
downsampleFloat32(buffer, srcRate, dstRate) ==
  IF srcRate = dstRate THEN [result |-> buffer, reads |-> {}]
  ELSE LET newLength == Round(Len(buffer) * dstRate, srcRate)
           sample(i) == Interpolated(buffer, srcRate, dstRate, i,
                                     Min(Floor(i * srcRate, dstRate) + 1,
                                         Len(buffer) - 1))
       IN  [result |-> [k \in 1..newLength |->
                          [num |-> sample(k - 1).num, den |-> sample(k - 1).den]],
            reads |-> UNION {sample(i).reads : i \in 0..(newLength - 1)}]

\* The buffers and rates downsampleFloat32 is applied to
ResampleInputs ==
  {[NoResample EXCEPT !.buffer = b, !.srcRate = s, !.dstRate = d] :
     b \in Buffers(MaxBuffer), s \in SampleRates, d \in SampleRates}

InitResample ==
  /\ InitComponents
  /\ maxReconnectAttempts = DefaultMaxReconnectAttempts
  /\ resample \in ResampleInputs

\* onaudioprocess applies downsampleFloat32 to the captured buffer
Downsample ==
  /\ ~resample.done
  /\ LET out == downsampleFloat32(resample.buffer, resample.srcRate, resample.dstRate)
     IN  resample' = [resample EXCEPT !.done = TRUE, !.result = out.result,
                                      !.reads = out.reads]
  /\ UNCHANGED <<isRecording, error, streamRef, audioCtxRef, processorRef,
                 sourceRef, pipelines, emitted, recOp>>
  /\ UNCHANGED <<pageVars, playerVars>>

NextResample == Downsample

SpecResample == InitResample /\ [][NextResample]_vars

\* C31: the result of downsampleFloat32 on a buffer of length L is the
\* buffer itself when the rates are equal, and otherwise has the length
\* round(L * dstRate / srcRate), which is round(L / 3) from 48000 to 16000;
\* every index it read is within 0..L-1.
C31_DownsampleLengthAndBounds ==
  resample.done =>
    LET L == Len(resample.buffer)
        k == Len(resample.result)
        s == resample.srcRate
        d == resample.dstRate
    IN  /\ s = d => resample.result = resample.buffer
        /\ s # d => /\ 2 * L * d - s < 2 * k * s
                    /\ 2 * k * s <= 2 * L * d + s
        /\ (s = 48000 /\ d = 16000) => (2 * L - 3 < 6 * k /\ 6 * k <= 2 * L + 3)
        /\ resample.reads \subseteq 0..(L - 1)

\* A buffer at 48000 Hz was resampled to 16000 Hz: its last output sample
\* interpolates towards the last input sample
C31_Witness ==
  /\ resample.done
  /\ resample.srcRate = 48000 /\ resample.dstRate = 16000
  /\ Len(resample.buffer) = MaxBuffer - 1
  /\ Len(resample.result) = 2
  /\ (Len(resample.buffer) - 1) \in resample.reads

--------------------------------------------------------------------------
\* Properties of the retry timer handle (checked under Spec)

\* C32: at most one retry timer is pending, and reconnectTimerRef designates
\* it, so that clearing the ref's timer cancels every scheduled retry.
C32_OnePendingTimerHeldByRef ==
  /\ Cardinality(timers) <= 1
  /\ \A t \in timers : t.id = reconnectTimerRef

--------------------------------------------------------------------------
\* Properties of overlapping recorder calls (checked under SpecRecorder)

\* The pipelines whose processor is delivering chunks
ActivePipelines == {k \in 1..Len(pipelines) : Emitting(k)}

\* C33: once stopRecording has run, with nothing capturing, no pipeline
\* becomes active (a start that was awaiting the permission grant is
\* cancelled) until startRecording is called again.
C33_StopCancelsPendingStart ==
  [][ (recOp.op = "stop" /\ recOp.failAt = "none" /\ ActivePipelines = {})
        => (ActivePipelines' = {} /\ ~isRecording') ]_vars

\* C35: at most one pipeline holds the microphone and emits chunks, and
\* after stopRecording no pipeline that was started is still held.
C35_OnePipelineHoldsMicrophone ==
  /\ Cardinality(ActivePipelines) <= 1
  /\ Cardinality({k \in 1..Len(pipelines) : pipelines[k].stream = "live"}) <= 1
  /\ (recOp.op = "stop" /\ recOp.failAt = "none")
       => \A k \in 1..Len(pipelines) :
            pipelines[k].stream # "pending" => Released(k)

--------------------------------------------------------------------------
\* Properties of the connection flag (checked under Spec)

\* C36: isConnected is not false while the current channel is open; the
\* late close event of a discarded channel does not clear it.
C36_ConnectedWhileCurrentOpen ==
  CurrentOpen => isConnected

--------------------------------------------------------------------------
\* Properties of the session's channel (checked under SpecPage)

\* C37: a channel created for a started session (by the timeout of
\* handleStartConsult, or by a retry of such a channel) is opened for the id
\* that the start returned, and its message handler sees that id.
C37_ChannelCarriesSessionId ==
  \A i \in 1..Len(sockets) :
    LET c == sockets[i].closure IN
      c.session # NULL => (c.sessionId = c.session /\ c.hSessionId = c.session)

\* The session of socket i was completed by a consult_ended event
CompletedByEvent(i) ==
  LET c == sockets[i].closure IN
    c.session # NULL /\ "event" \in completions[SessionIndex(c.session)]

\* C39: the close of a channel whose session has completed through
\* consult_ended arms no retry.
C39_NoRetryAfterCompletion ==
  [][ \A i \in 1..Len(sockets) :
        (CompletedByEvent(i) /\ sockets[i].readyState # "CLOSED"
           /\ sockets'[i].readyState = "CLOSED")
          => timers' \subseteq timers ]_vars

\* C40: the overlay is not active while no session is, and a session that
\* starts does so with the overlay inactive.
C40_NoOverlayWithoutSession ==
  /\ [](sessionId = NULL => ~isInterrupting)
  /\ [][nSessions' # nSessions => ~isInterrupting']_vars

--------------------------------------------------------------------------
\* The recorder of Home with the channel it sends to

NextCapture ==
  \/ Connect
  \/ \E i \in 1..Len(sockets) : SocketOpen(i)
  \/ \E i \in 1..Len(sockets) : SocketCloseEvent(i)
  \/ ToggleRecording
  \/ \E k \in 1..MaxStarts : GetUserMediaOk(k, "none")
  \/ \E k \in 1..MaxStarts : EmitChunk(k)

SpecCapture == InitPage /\ [][NextCapture]_vars

\* C38: a captured chunk is sent as one binary frame on the current channel
\* exactly when that channel is OPEN as the chunk is emitted.
C38_ChunkSentIffChannelOpen ==
  [][ emitted' # emitted
        => sent' = IF CurrentOpen
                   THEN Append(sent, [socket |-> wsRef, frame |-> AudioFrame])
                   ELSE sent ]_vars

--------------------------------------------------------------------------
\* Inbound audio: binary frames of the channel handed to the player

\* ws.onmessage of socket i with a Blob: event.data.arrayBuffer() is started
\* and the handler returns; the frame is numbered by its arrival.
ReceiveBlob(i) ==
  /\ sockets[i].readyState = "OPEN"
  /\ audioIn.arrived < MaxFragments
  /\ audioIn' = [audioIn EXCEPT !.arrived = @ + 1,
                                !.pending = @ \cup {audioIn.arrived + 1}]
  /\ UNCHANGED <<hookVars, histVars, lastMessage, sent, issued, inbound,
                 homeVars, asyncVars, homeHist, playerVars, recorderVars>>

\* The arrayBuffer() promise of frame n resolves: onAudio(buffer), which is
\* handleAudioData, which is playAudioChunk(buffer).  Each promise resolves
\* on its own; nothing in the handler orders one after another.
BlobConverted(n) ==
  /\ n \in audioIn.pending
  /\ Len(arrivedAt) < MaxFragments
  /\ ~TimerDue
  /\ audioIn' = [audioIn EXCEPT !.pending = @ \ {n},
                                !.delivered = Append(@, n)]
  /\ DoPlayAudioChunk
  /\ UNCHANGED <<hookVars, histVars, lastMessage, sent, issued, inbound,
                 homeVars, asyncVars, homeHist, recorderVars>>

NextAudioIn ==
  \/ Connect
  \/ \E i \in 1..Len(sockets) : SocketOpen(i)
  \/ \E i \in 1..Len(sockets) : SocketCloseEvent(i)
  \/ \E i \in 1..Len(sockets) : ReceiveBlob(i)
  \/ \E n \in 1..MaxFragments : BlobConverted(n)

SpecAudioIn == InitPage /\ [][NextAudioIn]_vars

\* C34: inbound binary audio frames reach onAudio in the order in which they
\* arrived on the channel.
C34_AudioDeliveredInArrivalOrder ==
  \A a, b \in 1..Len(audioIn.delivered) :
    a < b => audioIn.delivered[a] < audioIn.delivered[b]

====
